---- MODULE Spec2Model ----
(***************************************************************************)
(* Model of the three glue programs of the pyMOR repository:               *)
(*   - the demo launcher (src/unnamed/part_000, lines 30-78),              *)
(*   - the CI wheel-building shell script (src/unnamed/part_000, 1-28),    *)
(*   - the heat-equation notebook (src/notebooks/heat.ipynb), run top to   *)
(*     bottom.                                                             *)
(* A behaviour is one run of one of the three programs; prog names it.     *)
(* Strings that the code slices or compares are sequences of one-character *)
(* strings, so that slicing and concatenation are computed, not assumed.   *)
(***************************************************************************)
EXTENDS Integers, Sequences, FiniteSets, TLC

VARIABLES
    prog,        \* which program this behaviour runs
    \* ---- demo launcher ----
    cmdline,     \* the command line the launcher was started with (never changes)
    pkg,         \* what pkgutil.walk_packages yields for pymordemos
    argv,        \* sys.argv
    parser,      \* the argparse.ArgumentParser object
    modules,     \* list modules
    shorts,      \* list shorts
    l_pc,        \* position in the launcher script
    ran,         \* modules handed to runpy.run_module(run_name='__main__'), in order
    demoArgv,    \* sys.argv as the running demo sees it
    stdout,      \* messages printed by the launcher
    exitStatus,  \* exit status of the launcher process, -1 while running
    \* ---- CI script ----
    shenv,       \* environment the script is started with
    shvars,      \* shell variables assigned by the script
    ci_pc,       \* position in the script
    events,      \* external commands started so far, with their outcome
    osLeft,      \* words of ${TEST_OS} the for loop has not visited yet
    \* ---- notebook ----
    HAVE_SLYCOT, \* config.HAVE_SLYCOT
    nb_pc,       \* index of the next code cell to execute
    ns,          \* the kernel namespace: variable name -> value
    reports      \* norm values printed so far

launcherVars == <<cmdline, pkg, argv, parser, modules, shorts, l_pc, ran, demoArgv, stdout, exitStatus>>
ciVars == <<shenv, shvars, ci_pc, events, osLeft>>
nbVars == <<HAVE_SLYCOT, nb_pc, ns, reports>>
vars == <<prog, launcherVars, ciVars, nbVars>>

Range(s) == {s[i] : i \in 1..Len(s)}

(***************************************************************************)
(* Bounds                                                                  *)
(***************************************************************************)
\* number of command-line arguments after argv[0]
MaxArgs == 3
\* number of words in ${TEST_OS}
MaxTestOs == 2

(***************************************************************************)
(* Demo launcher                                                           *)
(***************************************************************************)
\* pymordemos.__name__ + '.', the prefix walk_packages puts on every name
Prefix == <<"p","y","m","o","r","d","e","m","o","s",".">>

\* len('pymordemos.')
PrefixLen == 11

\* the option string -h
DashH == <<"-","h">>

\* the demo modules a pymordemos package may contain, in the order
\* walk_packages lists them (sorted by file name); pymordemos is a flat package
\* of Python modules, whose names are identifiers: none is an option string
AllDemos == << Prefix \o <<"b">>, Prefix \o <<"b","t">>, Prefix \o <<"t">> >>

\* the package contents: the modules of AllDemos selected by the index set S
RECURSIVE SelectDemos(_, _)
SelectDemos(S, i) ==
    IF i > Len(AllDemos) THEN <<>>
    ELSE (IF i \in S THEN <<AllDemos[i]>> ELSE <<>>) \o SelectDemos(S, i + 1)

Packages == {SelectDemos(S, 1) : S \in SUBSET (1..Len(AllDemos))}

\* the path the launcher script is started as
LauncherPath == <<"pymor-demo">>

\* words a user may type after the launcher's name
ArgWords == { <<"b">>, <<"b","t">>, <<"t">>, DashH, <<"1">>, Prefix \o <<"b">> }

ArgLists == UNION {[1..n -> ArgWords] : n \in 0..MaxArgs}

\* short = module_name[len('pymordemos.'):]
Short(module_name) == SubSeq(module_name, PrefixLen + 1, Len(module_name))

\* the for loop over walk_packages: modules.append, shorts.append
RECURSIVE WalkModules(_)
WalkModules(p) == IF p = <<>> THEN <<>> ELSE <<Head(p)>> \o WalkModules(Tail(p))
RECURSIVE WalkShorts(_)
WalkShorts(p) == IF p = <<>> THEN <<>> ELSE <<Short(Head(p))>> \o WalkShorts(Tail(p))

\* list.index(x): the lowest position holding x (1-based here)
IndexOf(s, x) == CHOOSE i \in 1..Len(s) : s[i] = x /\ \A j \in 1..(i - 1) : s[j] # x

\* modules[shorts.index(sys.argv[1])]
PickLast(ms, ss, a) == ms[Len(ms)]
Pick(ms, ss, a) == ms[IndexOf(ss, a[2])]

\* the test of line 76: sys.argv[1] in shorts
SelectedUnlessHelp(a, ss) == a[2] \in Range(ss) /\ DashH \notin Range(a)
Selected(a, ss) == a[2] \in Range(ss)

\* del sys.argv[1]
DelNothing(a) == a
DelArgv1(a) == <<a[1]>> \o SubSeq(a, 3, Len(a))

\* mod_spec.origin of a demo module: the file it was loaded from
FileOf(module) == <<"pymordemos/">> \o Short(module) \o <<".py">>

\* runpy.run_module(..., alter_sys=True) sets sys.argv[0] to the module's file
\* for the time the module runs
AlterSys(a, module) == <<FileOf(module)>> \o Tail(a)

\* the message usage() prints
UsageMsg == [kind |-> "usage", prog |-> argv[1], names |-> shorts]

LauncherIdle ==
    /\ cmdline = <<>> /\ pkg = <<>> /\ argv = <<>> /\ parser = <<>>
    /\ modules = <<>> /\ shorts = <<>> /\ l_pc = "idle" /\ ran = <<>>
    /\ demoArgv = <<>> /\ stdout = <<>> /\ exitStatus = -1

LauncherInit ==
    /\ cmdline \in {<<LauncherPath>> \o args : args \in ArgLists}
    /\ pkg \in Packages
    /\ argv = cmdline
    /\ parser = <<>>
    /\ modules = <<>> /\ shorts = <<>> /\ l_pc = "start" /\ ran = <<>>
    /\ demoArgv = <<>> /\ stdout = <<>> /\ exitStatus = -1

\* lines 46-47: the parser is created; nothing ever calls parse_args on it
CreateParser ==
    /\ prog = "launcher" /\ l_pc = "start"
    /\ parser' = <<[description |-> "Launcher script for all available pyMOR demos.",
                    epilog |-> <<"Example: ", argv[1], " burgers 1">>]>>
    /\ l_pc' = "discover"
    /\ UNCHANGED <<cmdline, pkg, argv, modules, shorts, ran, demoArgv, stdout, exitStatus, prog, ciVars, nbVars>>

\* lines 55-60
Discover ==
    /\ prog = "launcher" /\ l_pc = "discover"
    /\ modules' = WalkModules(pkg)
    /\ shorts' = WalkShorts(pkg)
    /\ l_pc' = "dispatch"
    /\ UNCHANGED <<cmdline, pkg, argv, parser, ran, demoArgv, stdout, exitStatus, prog, ciVars, nbVars>>

\* lines 74-75: no argument at all: usage() prints and exits
UsageNoArgs ==
    /\ prog = "launcher" /\ l_pc = "dispatch"
    /\ Len(argv) < 2
    /\ stdout' = Append(stdout, UsageMsg)
    /\ exitStatus' = 0
    /\ l_pc' = "exited"
    /\ UNCHANGED <<cmdline, pkg, argv, parser, modules, shorts, ran, demoArgv, prog, ciVars, nbVars>>

\* lines 76-77 and 49-52: _run(module) up to the point where the demo's code runs
RunDemo ==
    /\ prog = "launcher" /\ l_pc = "dispatch"
    /\ Len(argv) >= 2
    /\ Selected(argv, shorts)
    /\ LET module == Pick(modules, shorts, argv)
           a == DelArgv1(argv)
       IN /\ argv' = AlterSys(a, module)
          /\ ran' = Append(ran, module)
          /\ demoArgv' = AlterSys(a, module)
    /\ l_pc' = "demo"
    /\ UNCHANGED <<cmdline, pkg, parser, modules, shorts, stdout, exitStatus, prog, ciVars, nbVars>>

\* lines 52-53: the demo returns, run_module puts the launcher's sys.argv[0]
\* back, sys.exit(0)
DemoReturns ==
    /\ prog = "launcher" /\ l_pc = "demo"
    /\ exitStatus' = 0
    /\ l_pc' = "exited"
    /\ argv' = <<cmdline[1]>> \o Tail(argv)
    /\ UNCHANGED <<cmdline, pkg, parser, modules, shorts, ran, demoArgv, stdout, prog, ciVars, nbVars>>

\* line 52: the demo raises (or calls sys.exit itself); the exception leaves
\* run_module and ends the launcher with the demo's status
DemoRaises ==
    /\ prog = "launcher" /\ l_pc = "demo"
    /\ \E status \in {1, 2} : exitStatus' = status
    /\ l_pc' = "exited"
    /\ argv' = <<cmdline[1]>> \o Tail(argv)
    /\ UNCHANGED <<cmdline, pkg, parser, modules, shorts, ran, demoArgv, stdout, prog, ciVars, nbVars>>

\* line 78: anything else, -h included: usage() prints and exits
UsageFallthroughSilent ==
    /\ prog = "launcher" /\ l_pc = "dispatch"
    /\ Len(argv) >= 2
    /\ ~Selected(argv, shorts)
    /\ exitStatus' = 0
    /\ l_pc' = "exited"
    /\ UNCHANGED <<cmdline, pkg, argv, parser, modules, shorts, ran, demoArgv, stdout, prog, ciVars, nbVars>>
UsageFallthrough ==
    /\ prog = "launcher" /\ l_pc = "dispatch"
    /\ Len(argv) >= 2
    /\ ~Selected(argv, shorts)
    /\ stdout' = Append(stdout, UsageMsg)
    /\ exitStatus' = 0
    /\ l_pc' = "exited"
    /\ UNCHANGED <<cmdline, pkg, argv, parser, modules, shorts, ran, demoArgv, prog, ciVars, nbVars>>

(***************************************************************************)
(* CI wheel-building script (bash, set -e from line 3, set -u from line 9) *)
(***************************************************************************)
\* marks an environment variable that is not set
Unset == "<unset>"

OsWords == {"debian_buster", "centos_8"}

TestOsLists == UNION {[1..n -> OsWords] : n \in 0..MaxTestOs}

Environments ==
    [CI_COMMIT_TAG : {Unset, "", "v2019.2"},
     SHARED_PATH : {Unset, "", "/shared"},
     PYVER : {Unset, "3.6", "3.7"},
     TEST_OS_set : BOOLEAN,
     TEST_OS : TestOsLists]

\* BUILDER_IMAGE=pymor/wheelbuilder:py${PYVER}
BuilderImage(pyver) == <<"pymor/wheelbuilder:py", pyver>>

\* ${PYMOR_ROOT}/.ci/docker/deploy_checks/Dockerfile
Dockerfile(root) == <<root, "/.ci/docker/deploy_checks/Dockerfile">>

\* one external command: its name, what it was given, whether it succeeded
Command(cmd, image, wheelhouse, root, src, tag, ok) ==
    [cmd |-> cmd, image |-> image, wheelhouse |-> wheelhouse, root |-> root,
     src |-> src, tag |-> tag, ok |-> ok]

NoVars == [BUILDER_WHEELHOUSE |-> "", PYMOR_ROOT |-> "", BUILDER_IMAGE |-> <<>>, cwd |-> "."]

CiIdle ==
    /\ shenv = [CI_COMMIT_TAG |-> Unset, SHARED_PATH |-> Unset, PYVER |-> Unset,
                TEST_OS_set |-> FALSE, TEST_OS |-> <<>>]
    /\ shvars = NoVars /\ ci_pc = "idle" /\ events = <<>> /\ osLeft = <<>>

CiInit ==
    /\ shenv \in {e \in Environments : ~e.TEST_OS_set => e.TEST_OS = <<>>}
    /\ shvars = NoVars /\ ci_pc = "tag_test" /\ events = <<>> /\ osLeft = <<>>

\* set -e: a command that fails ends the script
AfterCommand(ok, next) == IF ok THEN next ELSE "aborted"

\* lines 5-7, no tag: sed rewrites the version style in setup.cfg
SedSetupCfg ==
    /\ prog = "ci" /\ ci_pc = "tag_test"
    /\ shenv.CI_COMMIT_TAG \in {Unset, ""}
    /\ \E ok \in BOOLEAN :
        /\ events' = Append(events, Command("sed", <<>>, "", "", <<>>, "", ok))
        /\ ci_pc' = AfterCommand(ok, "wheelhouse")
    /\ UNCHANGED <<shenv, shvars, osLeft, prog, launcherVars, nbVars>>

\* lines 5-7, tagged commit: setup.cfg is left alone
SkipSed ==
    /\ prog = "ci" /\ ci_pc = "tag_test"
    /\ shenv.CI_COMMIT_TAG \notin {Unset, ""}
    /\ ci_pc' = "wheelhouse"
    /\ UNCHANGED <<shenv, shvars, events, osLeft, prog, launcherVars, nbVars>>

\* line 12 under set -u: an unset SHARED_PATH ends the script
AssignWheelhouse ==
    /\ prog = "ci" /\ ci_pc = "wheelhouse"
    /\ IF shenv.SHARED_PATH = Unset
       THEN ci_pc' = "aborted" /\ UNCHANGED shvars
       ELSE /\ shvars' = [shvars EXCEPT !.BUILDER_WHEELHOUSE = shenv.SHARED_PATH]
            /\ ci_pc' = "root"
    /\ UNCHANGED <<shenv, events, osLeft, prog, launcherVars, nbVars>>

\* line 13
AssignRoot ==
    /\ prog = "ci" /\ ci_pc = "root"
    /\ shvars' = [shvars EXCEPT !.PYMOR_ROOT = "/pymor"]
    /\ ci_pc' = "cd"
    /\ UNCHANGED <<shenv, events, osLeft, prog, launcherVars, nbVars>>

\* line 14
ChangeDir ==
    /\ prog = "ci" /\ ci_pc = "cd"
    /\ \E ok \in BOOLEAN :
        /\ shvars' = [shvars EXCEPT !.cwd = IF ok THEN shvars.PYMOR_ROOT ELSE @]
        /\ ci_pc' = AfterCommand(ok, "mkdir")
    /\ UNCHANGED <<shenv, events, osLeft, prog, launcherVars, nbVars>>

\* line 17; with an empty wheelhouse mkdir -p has no operand and fails
Mkdir ==
    /\ prog = "ci" /\ ci_pc = "mkdir"
    /\ \E ok \in BOOLEAN :
        /\ shvars.BUILDER_WHEELHOUSE = "" => ~ok
        /\ events' = Append(events, Command("mkdir", <<>>, shvars.BUILDER_WHEELHOUSE, "", <<>>, "", ok))
        /\ ci_pc' = AfterCommand(ok, "image")
    /\ UNCHANGED <<shenv, shvars, osLeft, prog, launcherVars, nbVars>>

\* line 19 under set -u: an unset PYVER ends the script
AssignImage ==
    /\ prog = "ci" /\ ci_pc = "image"
    /\ IF shenv.PYVER = Unset
       THEN ci_pc' = "aborted" /\ UNCHANGED shvars
       ELSE /\ shvars' = [shvars EXCEPT !.BUILDER_IMAGE = BuilderImage(shenv.PYVER)]
            /\ ci_pc' = "pull"
    /\ UNCHANGED <<shenv, events, osLeft, prog, launcherVars, nbVars>>

\* line 20
DockerPull ==
    /\ prog = "ci" /\ ci_pc = "pull"
    /\ \E ok \in BOOLEAN :
        /\ events' = Append(events, Command("docker pull", shvars.BUILDER_IMAGE, "", "", <<>>, "", ok))
        /\ ci_pc' = AfterCommand(ok, "run")
    /\ UNCHANGED <<shenv, shvars, osLeft, prog, launcherVars, nbVars>>

\* lines 21-23: build-wheels.sh in the builder image, wheelhouse and root mounted
DockerRun ==
    /\ prog = "ci" /\ ci_pc = "run"
    /\ \E ok \in BOOLEAN :
        /\ events' = Append(events, Command("docker run", shvars.BUILDER_IMAGE,
                                            shvars.BUILDER_WHEELHOUSE, shvars.PYMOR_ROOT, <<>>, "", ok))
        /\ ci_pc' = AfterCommand(ok, "cp")
    /\ UNCHANGED <<shenv, shvars, osLeft, prog, launcherVars, nbVars>>

\* line 25
CopyDockerfileNoErrexit ==
    /\ prog = "ci" /\ ci_pc = "cp"
    /\ \E ok \in BOOLEAN :
        /\ events' = Append(events, Command("cp", <<>>, shvars.BUILDER_WHEELHOUSE, "",
                                            Dockerfile(shvars.PYMOR_ROOT), "", ok))
        /\ ci_pc' = "for"
    /\ UNCHANGED <<shenv, shvars, osLeft, prog, launcherVars, nbVars>>
CopyDockerfile ==
    /\ prog = "ci" /\ ci_pc = "cp"
    /\ \E ok \in BOOLEAN :
        /\ events' = Append(events, Command("cp", <<>>, shvars.BUILDER_WHEELHOUSE, "",
                                            Dockerfile(shvars.PYMOR_ROOT), "", ok))
        /\ ci_pc' = AfterCommand(ok, "for")
    /\ UNCHANGED <<shenv, shvars, osLeft, prog, launcherVars, nbVars>>

\* line 26: ${TEST_OS} is expanded and split into words; unset ends the script
ForBegin ==
    /\ prog = "ci" /\ ci_pc = "for"
    /\ IF ~shenv.TEST_OS_set
       THEN ci_pc' = "aborted" /\ UNCHANGED osLeft
       ELSE osLeft' = shenv.TEST_OS /\ ci_pc' = "loop"
    /\ UNCHANGED <<shenv, shvars, events, prog, launcherVars, nbVars>>

\* line 27: one docker build per word
DockerBuild ==
    /\ prog = "ci" /\ ci_pc = "loop"
    /\ osLeft # <<>>
    /\ \E ok \in BOOLEAN :
        /\ events' = Append(events, Command("docker build", <<>>, shvars.BUILDER_WHEELHOUSE,
                                            "", <<>>, Head(osLeft), ok))
        /\ ci_pc' = AfterCommand(ok, "loop")
    /\ osLeft' = Tail(osLeft)
    /\ UNCHANGED <<shenv, shvars, prog, launcherVars, nbVars>>

\* line 28: no word left, the script ends
ForEnd ==
    /\ prog = "ci" /\ ci_pc = "loop"
    /\ osLeft = <<>>
    /\ ci_pc' = "done"
    /\ UNCHANGED <<shenv, shvars, events, osLeft, prog, launcherVars, nbVars>>

(***************************************************************************)
(* Heat-equation notebook: the code cells, executed top to bottom          *)
(***************************************************************************)
\* a value in the kernel namespace: what it is, the cell that created it and,
\* for a value computed from others, what its operands were
Value(kind, id, cell, a, akind, b, bkind, bcell) ==
    [kind |-> kind, id |-> id, cell |-> cell, a |-> a, akind |-> akind,
     b |-> b, bkind |-> bkind, bcell |-> bcell]

\* a name that is not bound yet
Undef == Value("undef", "", 0, "", "", "", "", 0)

\* the variable names the notebook binds
Names == {"fom", "lti", "w", "tf",
          "bt_reductor", "rom_bt", "err_bt",
          "lqgbt_reductor", "rom_lqgbt", "err_lqgbt",
          "brbt_reductor", "rom_brbt", "err_brbt",
          "irka_reductor", "rom_irka", "err_irka",
          "rom0", "tsia_reductor", "rom_tsia",
          "one_sided_irka_reductor", "rom_one_sided_irka", "err_one_sided_irka",
          "sy_tf", "sy_dtf", "tf_lti_diff", "tf_h2_norm",
          "tf_irka_reductor", "rom_tf_irka", "err_tf_irka", "err_irka_tf"}

\* one statement of a cell
Stmt(op, tgt, x, y, label, norm, guard) ==
    [op |-> op, tgt |-> tgt, x |-> x, y |-> y, label |-> label, norm |-> norm, guard |-> guard]

\* tgt = <an object of the given kind built from x>, x may be ""
Make(tgt, kind, x) == Stmt("make", tgt, x, "", kind, "", "always")
\* x is read (plotted, solved, inspected), nothing is bound
Use(x) == Stmt("use", "", x, "", "", "", "always")
\* tgt = SomeReductor(x)
Reductor(tgt, cls, x) == Stmt("reductor", tgt, x, "", cls, "", "always")
\* tgt = x.reduce(...)
Reduce(tgt, x) == Stmt("reduce", tgt, x, "", "", "", "always")
\* tgt = x - y
Sub(tgt, x, y) == Stmt("sub", tgt, x, y, "", "", "always")
\* print(x.<norm>_norm()) or print(x.<norm>_norm() / y.<norm>_norm())
PrintNorm(label, norm, x, y) == Stmt("print_norm", "", x, y, label, norm, "always")
\* the same under "if config.HAVE_SLYCOT:"
PrintNormIfSlycot(label, norm, x, y) == Stmt("print_norm", "", x, y, label, norm, "slycot")
\* tgt = sqrt(quad(|x.eval_tf(iw)|^2) / 2 / pi), printed, relative to y if y is given
PrintQuad(label, tgt, x, y) == Stmt("print_quad", tgt, x, y, label, "H2", "always")

\* the three prints of an error cell
ErrorNorms(label, err) ==
    << PrintNorm(label, "H2", err, "lti"),
       PrintNormIfSlycot(label, "Hinf", err, "lti"),
       PrintNorm(label, "Hankel", err, "lti") >>

\* the two Bode-plot cells that follow an error cell
BodeCells(rom, err) == << <<Use("w"), Use("lti"), Use(rom)>>, <<Use("w"), Use(err)>> >>

CellsFom ==
    << <<>>,                                           \* imports
       <<Make("fom", "fom", "")>>,                     \* discretize_instationary_cg
       <<Use("fom")>>,                                 \* fom.visualize(fom.solve())
       <<Make("lti", "lti", "fom")>>,                  \* lti = fom.to_lti()
       <<Use("lti")>>,                                 \* order, input_dim, output_dim
       <<Use("lti")>>,                                 \* poles
       <<Make("w", "array", ""), Use("lti")>>,         \* Bode plot of the full model
       <<Use("lti")>>,                                 \* Hankel singular values
       << PrintNorm("FOM", "H2", "lti", ""),
          PrintNormIfSlycot("FOM", "Hinf", "lti", ""),
          PrintNorm("FOM", "Hankel", "lti", "") >> >>

CellsBT ==
    << <<Reductor("bt_reductor", "BTReductor", "lti"), Reduce("rom_bt", "bt_reductor")>>,
       <<Sub("err_bt", "lti", "rom_bt")>> \o ErrorNorms("BT", "err_bt") >>
    \o BodeCells("rom_bt", "err_bt")

CellsLQGBT ==
    << <<Reductor("lqgbt_reductor", "LQGBTReductor", "lti"), Reduce("rom_lqgbt", "lqgbt_reductor")>>,
       <<Sub("err_lqgbt", "lti", "rom_lqgbt")>> \o ErrorNorms("LQGBT", "err_lqgbt") >>
    \o BodeCells("rom_lqgbt", "err_lqgbt")

CellsBRBT ==
    << <<Reductor("brbt_reductor", "BRBTReductor", "lti"), Reduce("rom_brbt", "brbt_reductor")>>,
       <<Sub("err_brbt", "lti", "rom_brbt")>> \o ErrorNorms("BRBT", "err_brbt") >>
    \o BodeCells("rom_brbt", "err_brbt")

CellsIRKA ==
    << <<Reductor("irka_reductor", "IRKAReductor", "lti"), Reduce("rom_irka", "irka_reductor")>>,
       <<Use("irka_reductor")>>,                       \* irka_reductor.dist
       <<Sub("err_irka", "lti", "rom_irka")>> \o ErrorNorms("IRKA", "err_irka") >>
    \o BodeCells("rom_irka", "err_irka")

CellsTSIA ==
    << << Make("rom0", "lti_from_matrices", "lti"),
          Reductor("tsia_reductor", "TSIAReductor", "lti"),
          Stmt("reduce", "rom_tsia", "tsia_reductor", "rom0", "", "", "always") >> >>

CellsOneSidedIRKA ==
    << << Reductor("one_sided_irka_reductor", "OneSidedIRKAReductor", "lti"),
          Reduce("rom_one_sided_irka", "one_sided_irka_reductor") >>,
       <<Use("one_sided_irka_reductor")>>,             \* one_sided_irka_reductor.dist
       <<Use("rom_one_sided_irka")>>,                  \* poles of the ROM
       <<Sub("err_one_sided_irka", "lti", "rom_one_sided_irka")>>
          \o ErrorNorms("One-sided IRKA", "err_one_sided_irka") >>
    \o BodeCells("rom_one_sided_irka", "err_one_sided_irka")

CellsTFIRKA ==
    << <<Make("sy_tf", "sympy", "")>>,                 \* sy.solve, sy.simplify
       <<Use("sy_tf")>>,                               \* limit at s = 0
       <<Make("sy_dtf", "sympy", "sy_tf")>>,           \* sy_tf.diff
       <<Use("sy_dtf")>>,                              \* limit at s = 0
       <<Make("tf", "tf", "lti")>>,                    \* TransferFunction(lti.input_space, ...)
       <<Sub("tf_lti_diff", "tf", "lti"), Use("w")>>,
       << PrintQuad("TF", "tf_h2_norm", "tf", ""),
          PrintNorm("LTI", "H2", "lti", "") >>,
       <<Use("tf_h2_norm"), PrintQuad("TF-LTI", "", "tf_lti_diff", "tf")>>,
       <<Reductor("tf_irka_reductor", "TF_IRKAReductor", "tf"), Reduce("rom_tf_irka", "tf_irka_reductor")>>,
       <<Sub("err_tf_irka", "tf", "rom_tf_irka"), Use("tf_h2_norm"),
         PrintQuad("TF-IRKA", "", "err_tf_irka", "tf")>>,
       <<Sub("err_irka_tf", "tf", "rom_irka"), Use("tf_h2_norm"),
         PrintQuad("IRKA (from TF)", "", "err_irka_tf", "tf")>> >>

\* all code cells of the notebook, in document order
Cells ==
    CellsFom \o CellsBT \o CellsLQGBT \o CellsBRBT \o CellsIRKA \o CellsTSIA
             \o CellsOneSidedIRKA \o CellsTFIRKA

\* the names a statement reads
Reads(s) == {n \in {s.x, s.y} : n # ""}

\* whether a statement under the given guard runs
GuardIgnored(guard, slycot) == TRUE
GuardHolds(guard, slycot) == guard = "always" \/ (guard = "slycot" /\ slycot)

\* one printed norm: of which system, relative to which, computed how, in which cell
Report(label, norm, how, sys, over, cell) ==
    [label |-> label, norm |-> norm, how |-> how, sys |-> sys, over |-> over, cell |-> cell]

\* the value a binding statement produces
Result(s, n, cell) ==
    CASE s.op = "make" -> Value(s.label, s.tgt, cell, s.x, (IF s.x = "" THEN "" ELSE n[s.x].kind), "", "", 0)
      [] s.op = "reductor" -> Value("reductor", s.label, cell, n[s.x].id, n[s.x].kind, "", "", 0)
      [] s.op = "reduce" -> Value("rom", s.tgt, cell, n[s.x].id, n[s.x].kind, n[s.x].a, n[s.x].akind, 0)
      [] s.op = "sub" -> Value("diff", s.tgt, cell, n[s.x].id, n[s.x].kind, n[s.y].id, n[s.y].kind, n[s.y].cell)
      [] s.op = "print_quad" -> Value("number", s.tgt, cell, n[s.x].id, n[s.x].kind, "", "", 0)
      [] OTHER -> Undef

\* the state of the kernel after one statement; a read of an unbound name
\* raises NameError and nothing further happens
ExecStmt(st, s, cell, slycot) ==
    IF st.failed \/ ~GuardHolds(s.guard, slycot) THEN st
    ELSE IF \E r \in Reads(s) : st.ns[r] = Undef THEN [st EXCEPT !.failed = TRUE]
    ELSE LET bound == IF s.tgt = "" THEN st.ns
                      ELSE [st.ns EXCEPT ![s.tgt] = Result(s, st.ns, cell)]
             over == IF s.y = "" THEN Undef ELSE st.ns[s.y]
             printed ==
                 CASE s.op = "print_norm" ->
                        Append(st.reports, Report(s.label, s.norm, "method", st.ns[s.x], over, cell))
                   [] s.op = "print_quad" ->
                        Append(st.reports, Report(s.label, s.norm, "quad", st.ns[s.x], over, cell))
                   [] OTHER -> st.reports
         IN [ns |-> bound, reports |-> printed, failed |-> FALSE]

RECURSIVE ExecCell(_, _, _, _)
ExecCell(st, stmts, cell, slycot) ==
    IF stmts = <<>> THEN st
    ELSE ExecCell(ExecStmt(st, Head(stmts), cell, slycot), Tail(stmts), cell, slycot)

NbIdle ==
    /\ HAVE_SLYCOT = FALSE /\ nb_pc = 0 /\ ns = [n \in Names |-> Undef] /\ reports = <<>>

NbInit ==
    /\ HAVE_SLYCOT \in BOOLEAN
    /\ nb_pc = 1
    /\ ns = [n \in Names |-> Undef]
    /\ reports = <<>>

\* the next code cell runs; a NameError in it stops the execution of the
\* notebook, and what the cell did before the error stays
RunCell ==
    /\ prog = "notebook"
    /\ nb_pc \in 1..Len(Cells)
    /\ LET st == ExecCell([ns |-> ns, reports |-> reports, failed |-> FALSE],
                          Cells[nb_pc], nb_pc, HAVE_SLYCOT)
       IN /\ ns' = st.ns
          /\ reports' = st.reports
          /\ nb_pc' = IF st.failed THEN -1 ELSE nb_pc + 1
    /\ UNCHANGED <<HAVE_SLYCOT, prog, launcherVars, ciVars>>

(***************************************************************************)
(* The run of one program                                                  *)
(***************************************************************************)
Init ==
    /\ prog \in {"launcher", "ci", "notebook"}
    /\ IF prog = "launcher" THEN LauncherInit ELSE LauncherIdle
    /\ IF prog = "ci" THEN CiInit ELSE CiIdle
    /\ IF prog = "notebook" THEN NbInit ELSE NbIdle

Next ==
    \/ CreateParser
    \/ Discover
    \/ UsageNoArgs
    \/ RunDemo
    \/ DemoReturns
    \/ DemoRaises
    \/ UsageFallthrough
    \/ SedSetupCfg
    \/ SkipSed
    \/ AssignWheelhouse
    \/ AssignRoot
    \/ ChangeDir
    \/ Mkdir
    \/ AssignImage
    \/ DockerPull
    \/ DockerRun
    \/ CopyDockerfile
    \/ ForBegin
    \/ DockerBuild
    \/ ForEnd
    \/ RunCell

Spec == Init /\ [][Next]_vars

(***************************************************************************)
(* Properties of the demo launcher                                         *)
(***************************************************************************)
\* the first argument is the short name of a discovered demo module
DemoNamed ==
    /\ prog = "launcher"
    /\ Len(cmdline) >= 2
    /\ \E i \in 1..Len(pkg) : pkg[i] = Prefix \o cmdline[2]

\* the launcher has handed control to a demo, or has ended
Dispatched == l_pc \in {"demo", "exited"}

\* C1: when argv[1] is the short name of a discovered module, the launcher
\* runs exactly one module as __main__, the module named 'pymordemos.' + argv[1],
\* and no other discovered module.
C1_DispatchByName ==
    DemoNamed =>
        /\ Dispatched => ran = << Prefix \o cmdline[2] >>
        /\ ~Dispatched => ran = <<>>

\* a demo that is not the first of several discovered modules was run, and the
\* launcher has ended
C1_Witness ==
    /\ DemoNamed
    /\ l_pc = "exited"
    /\ Len(pkg) >= 2
    /\ ran = << Prefix \o cmdline[2] >>
    /\ ran[1] # pkg[1]
    /\ ran[1] # pkg[Len(pkg)]

\* C2 as stated: the demo sees the launcher's argv with only position 1
\* removed, argv[0] included unchanged.
C2_OnlyNameRemoved ==
    (prog = "launcher" /\ l_pc = "demo") =>
        demoArgv = <<cmdline[1]>> \o SubSeq(cmdline, 3, Len(cmdline))

\* C2 amended: the demo sees the launcher's argv with the demo name removed
\* and argv[0] replaced by the file of the demo module; every argument after
\* the demo name is kept, in order, so the demo's first option is at position 1.
C2_ArgvHandOff ==
    (prog = "launcher" /\ l_pc = "demo") =>
        /\ Len(demoArgv) = Len(cmdline) - 1
        /\ demoArgv[1] = FileOf(Prefix \o cmdline[2])
        /\ \A i \in 2..Len(demoArgv) : demoArgv[i] = cmdline[i + 1]
        /\ argv = demoArgv

\* a demo is running that was given two different options
C2_Witness ==
    /\ prog = "launcher" /\ l_pc = "demo"
    /\ Len(cmdline) = 4
    /\ cmdline[3] # cmdline[4]
    /\ demoArgv[2] = cmdline[3] /\ demoArgv[3] = cmdline[4]

\* the first argument is -h
HelpFirst == prog = "launcher" /\ Len(cmdline) >= 2 /\ cmdline[2] = DashH

\* m is the usage message of this run: it names the launcher and lists the
\* short names of the discovered modules
IsUsageOfRun(m) ==
    /\ m.kind = "usage"
    /\ m.prog = cmdline[1]
    /\ Len(m.names) = Len(pkg)
    /\ \A i \in 1..Len(pkg) : Prefix \o m.names[i] = pkg[i]

\* C3: when the first argument is -h the launcher prints its usage message,
\* the one listing the selectable demo names, and exits without running a demo.
C3_LauncherHelp ==
    HelpFirst =>
        /\ ran = <<>>
        /\ l_pc # "demo"
        /\ l_pc = "exited" => (Len(stdout) = 1 /\ IsUsageOfRun(stdout[1]) /\ exitStatus = 0)
        /\ l_pc # "exited" => stdout = <<>>

\* the launcher has ended on -h with demos to list
C3_Witness ==
    /\ HelpFirst
    /\ l_pc = "exited"
    /\ Len(pkg) >= 2
    /\ Len(stdout) = 1

\* the command line is DEMO_NAME -h ...
DemoHelp == DemoNamed /\ Len(cmdline) >= 3 /\ cmdline[3] = DashH

\* C4: for DEMO_NAME -h ... the -h and everything after the name go to the
\* demo; the launcher prints no usage message and runs the demo.
C4_DemoOptionsBelongToDemo ==
    DemoHelp =>
        /\ stdout = <<>>
        /\ Dispatched =>
            /\ ran = << Prefix \o cmdline[2] >>
            /\ SubSeq(demoArgv, 2, Len(demoArgv)) = SubSeq(cmdline, 3, Len(cmdline))

\* a demo is running and sees -h as its first option
C4_Witness ==
    /\ DemoHelp
    /\ l_pc = "demo"
    /\ demoArgv[2] = DashH

(***************************************************************************)
(* Properties of the CI script                                             *)
(***************************************************************************)
IsPipelineStep(e) == e.cmd \in {"mkdir", "docker pull", "docker run", "cp", "docker build"}

\* the positions in events of the command cmd
Positions(cmd) == {i \in 1..Len(events) : events[i].cmd = cmd}

\* the pipeline of a complete run, every step successful
ExpectedPipeline ==
    LET wheelhouse == shenv.SHARED_PATH
        image == <<"pymor/wheelbuilder:py", shenv.PYVER>>
        root == shvars.PYMOR_ROOT
    IN << [cmd |-> "mkdir", image |-> <<>>, wheelhouse |-> wheelhouse, root |-> "",
           src |-> <<>>, tag |-> "", ok |-> TRUE],
          [cmd |-> "docker pull", image |-> image, wheelhouse |-> "", root |-> "",
           src |-> <<>>, tag |-> "", ok |-> TRUE],
          [cmd |-> "docker run", image |-> image, wheelhouse |-> wheelhouse, root |-> root,
           src |-> <<>>, tag |-> "", ok |-> TRUE],
          [cmd |-> "cp", image |-> <<>>, wheelhouse |-> wheelhouse, root |-> "",
           src |-> <<root, "/.ci/docker/deploy_checks/Dockerfile">>, tag |-> "", ok |-> TRUE] >>
       \o [i \in 1..Len(shenv.TEST_OS) |->
              [cmd |-> "docker build", image |-> <<>>, wheelhouse |-> wheelhouse, root |-> "",
               src |-> <<>>, tag |-> shenv.TEST_OS[i], ok |-> TRUE]]

\* C5: in a run that reaches its end the steps are, in this order, mkdir of
\* the wheelhouse, docker pull of the builder image, docker run of
\* build-wheels.sh with wheelhouse and root mounted, cp of the Dockerfile, then
\* the docker builds; each but the last happens at most once, and no docker
\* build starts before the wheel build has finished and the Dockerfile is copied.
C5_PipelineOrder ==
    prog = "ci" =>
        /\ ci_pc = "done" => SelectSeq(events, IsPipelineStep) = ExpectedPipeline
        /\ \A c \in {"mkdir", "docker pull", "docker run", "cp"} : Cardinality(Positions(c)) <= 1
        /\ \A i \in Positions("docker build") :
              \E j, k \in 1..(i - 1) :
                  /\ j < k
                  /\ events[j].cmd = "docker run" /\ events[j].ok
                  /\ events[k].cmd = "cp" /\ events[k].ok

\* a run has reached its end after two docker builds
C5_Witness ==
    /\ prog = "ci" /\ ci_pc = "done"
    /\ Cardinality(Positions("docker build")) >= 2
    /\ Cardinality(Positions("cp")) = 1

(***************************************************************************)
(* Properties of the notebook                                              *)
(***************************************************************************)
\* the sections whose error system gets its three norms printed
ErrorSections == {"BT", "LQGBT", "BRBT", "IRKA", "One-sided IRKA"}

\* the positions in reports of the norm printed under the label
Printed(label, norm) == {i \in 1..Len(reports) : reports[i].label = label /\ reports[i].norm = norm}

NotebookDone == prog = "notebook" /\ nb_pc = Len(Cells) + 1

\* H2 and Hankel norms are computed for the full model and for each of the
\* five error systems, the H-infinity norm exactly when HAVE_SLYCOT
NormsComputed ==
    /\ \A label \in ErrorSections \cup {"FOM"} :
          /\ NotebookDone => (Printed(label, "H2") # {} /\ Printed(label, "Hankel") # {})
          /\ Printed(label, "H2") # {} =>
                /\ Printed(label, "Hankel") # {}
                /\ Printed(label, "Hinf") # {} <=> HAVE_SLYCOT
          /\ \A i \in Printed(label, "H2") \cup Printed(label, "Hinf") \cup Printed(label, "Hankel") :
                /\ reports[i].how = "method"
                /\ reports[i].sys.kind = (IF label = "FOM" THEN "lti" ELSE "diff")
    /\ ~HAVE_SLYCOT => \A i \in 1..Len(reports) : reports[i].norm # "Hinf"

\* an error system: the difference of a model and a reduced model
IsErrorSystem(v) == v.kind = "diff" /\ v.bkind = "rom"

\* the report is about lti - rom, rom made by a reduce call of an earlier cell
\* on a reductor of lti
IsLtiMinusRom(r) ==
    /\ r.sys.kind = "diff"
    /\ r.sys.akind = "lti" /\ r.sys.a = "lti"
    /\ r.sys.bkind = "rom" /\ r.sys.bcell < r.cell
    /\ ns[r.sys.b].kind = "rom" /\ ns[r.sys.b].akind = "reductor" /\ ns[r.sys.b].b = "lti"

\* C6 as stated: the norms are computed as above, and every error system
\* whose norm is reported is lti - rom for a rom of an earlier reduce call.
C6_EveryErrorSystemIsLtiMinusRom ==
    prog = "notebook" =>
        /\ NormsComputed
        /\ \A i \in 1..Len(reports) : IsErrorSystem(reports[i].sys) => IsLtiMinusRom(reports[i])

\* C6 amended: the norms are computed as above; every error system whose norm
\* is computed by h2_norm, hinf_norm or hankel_norm is lti - rom for a rom of an
\* earlier reduce call; the error systems whose H2 error is computed by
\* quadrature are differences tf - rom from the transfer function.
C6_ErrorNorms ==
    prog = "notebook" =>
        /\ NormsComputed
        /\ \A i \in 1..Len(reports) :
              IsErrorSystem(reports[i].sys) =>
                  IF reports[i].how = "method"
                  THEN IsLtiMinusRom(reports[i])
                  ELSE /\ reports[i].sys.akind = "tf"
                       /\ reports[i].sys.bcell < reports[i].cell
                       /\ reports[i].norm = "H2"

\* the notebook has run to its end with slycot, all five error systems reported
C6_Witness ==
    /\ NotebookDone
    /\ HAVE_SLYCOT
    /\ \A label \in ErrorSections : Printed(label, "Hinf") # {}
    /\ \E i \in 1..Len(reports) : IsErrorSystem(reports[i].sys) /\ reports[i].how = "quad"

====
